---- MODULE Spec2Model ----
(***************************************************************************)
(* ChatFlow: the REST handlers of src/server/index.ts (registerRoutes) and *)
(* the storage layer behind them (DatabaseStorage), over the tables of     *)
(* src/shared/schema.ts.                                                   *)
(*                                                                         *)
(* One action per route.  Every authenticated route first runs             *)
(* authenticateToken, which marks the caller online, and then the handler; *)
(* a handler is one step.  Each route has a Reply operator (the chain of   *)
(* checks of the handler, in the order of the source, giving the HTTP      *)
(* status and message) and an action that applies the storage calls the    *)
(* handler makes when the reply says so.  `last` records the request that  *)
(* was served and its response.                                            *)
(***************************************************************************)
EXTENDS Integers, Sequences, FiniteSets, Bags, TLC

VARIABLES users, rooms, roomMembers, messages, friendships, \* the tables
          now,              \* the database clock
          last,             \* the request served last and its response
          deleteRequested,  \* history: messages whose sender has asked to delete them
          inflight,         \* requests between two awaits of their handler
          hook              \* the client: the state of useRoomMessages in its ChatArea

vars == <<users, rooms, roomMembers, messages, friendships, now, last, deleteRequested,
          inflight, hook>>

(***************************************************************************)
(* Bounds of the model: the tables stop growing at these sizes.            *)
(***************************************************************************)
MaxRooms == 2           \* rooms, where the claims are about rooms
MaxMessages == 2        \* messages, where the claims are about messages
MaxFriendships == 2
MaxChatRooms == 1       \* rooms, where a room is only the place of messages
MaxPosts == 1           \* messages, where the claims are about room access
MaxListed == 51         \* messages of one room, where the claim is about its listing
MaxInflight == 2        \* requests in flight at the same time
MaxPolled == 3          \* messages, where the claim is about the client's polling

(***************************************************************************)
(* What requests may carry.                                                *)
(***************************************************************************)
Emails == {"a@x.com", "b@x.com"}    \* e-mail addresses
Codes == {"c1", "c2", "c3"}         \* what Math.random() may yield as a code
UserIds == 1..Cardinality(Emails)   \* user ids of a path or a body
RoomIds == 1..MaxRooms
MessageIds == 1..MaxMessages
FriendshipIds == 1..MaxFriendships
Rids == 1..MaxInflight              \* names of the requests in flight
Contents == {"hi", "yo"}            \* non-blank message texts
ThreeEmails == <<"a@x.com", "b@x.com", "c@x.com">>    \* where a third user is needed
ProfileEmails == Emails \cup {"c@x.com", "d@x.com"}  \* e-mails of a profile update
BlankContents == {"", " "}          \* texts with nothing but white space
NULL == 0                           \* SQL NULL; an id absent from a body
NoText == "<none>"                  \* a string field absent from a body

(***************************************************************************)
(* Responses: HTTP status and the message of the JSON body.                *)
(***************************************************************************)
Reply(status, message) == [status |-> status, message |-> message]

\* The request served last: the route, the authenticated caller, the id and
\* the string the request carries, and the response.
Request(op, uid, arg, text, reply) ==
    [op |-> op, uid |-> uid, arg |-> arg, text |-> text,
     status |-> reply.status, message |-> reply.message]

(***************************************************************************)
(* Storage: users                                                          *)
(***************************************************************************)
userExists(id) == id \in 1..Len(users)

getUserByEmail(email) ==
    IF \E i \in 1..Len(users) : users[i].email = email
    THEN CHOOSE i \in 1..Len(users) : users[i].email = email
    ELSE NULL

createUser(email, status) == Append(users, [email |-> email, status |-> status])

\* Mutant of updateUserStatus: the status written is always online.
updateUserStatus_AlwaysOnline(id, status) ==
    IF userExists(id) THEN [users EXCEPT ![id].status = "online"] ELSE users

\* updateUserStatus: sets the status (and stamps lastSeen).
updateUserStatus(id, status) ==
    IF userExists(id) THEN [users EXCEPT ![id].status = status] ELSE users

\* Mutant of authenticateToken: the token is verified and nothing is written.
authenticateToken_NoPresence(uid) == users

\* authenticateToken with a valid token of user uid: req.userId = uid and the
\* user is marked online before the handler runs.
authenticateToken(uid) == updateUserStatus(uid, "online")

\* What a request may carry instead of a valid token: no Authorization header,
\* a header with nothing after its first space, a string that is no JWT, a JWT
\* signed with another secret, a JWT past its expiry.
BadTokens == {"noHeader", "noValue", "garbage", "badSignature", "expired"}

\* authenticateToken with one of those: 401 when there is no token to verify,
\* 403 when jwt.verify throws.  next() is not called.
authenticateTokenReply(token) ==
    IF token \in {"noHeader", "noValue"} THEN Reply(401, "Access token required")
    ELSE Reply(403, "Invalid or expired token")

(***************************************************************************)
(* Storage: rooms and memberships                                          *)
(***************************************************************************)
roomExists(id) == id \in 1..Len(rooms)

getRoomByInviteCode(inviteCode) ==
    IF \E r \in 1..Len(rooms) : rooms[r].inviteCode = inviteCode
    THEN CHOOSE r \in 1..Len(rooms) : rooms[r].inviteCode = inviteCode
    ELSE NULL

\* Mutant of inviteCodeTaken: the column is not declared unique.
inviteCodeTaken_NotUnique(inviteCode, exceptRoom) == FALSE

\* rooms.inviteCode is UNIQUE: an insert or update that would give two rows
\* the same code is refused by the database (the statement throws).
inviteCodeTaken(inviteCode, exceptRoom) ==
    \E r \in 1..Len(rooms) : r # exceptRoom /\ rooms[r].inviteCode = inviteCode

\* update rooms set invite_code = ... where id = roomId
generateInviteCode(roomId, inviteCode) ==
    IF roomExists(roomId) THEN [rooms EXCEPT ![roomId].inviteCode = inviteCode]
    ELSE rooms

\* Mutant of isRoomMember: the WHERE clause forgets the user.
isRoomMember_AnyUser(roomId, userId) ==
    \E m \in BagToSet(roomMembers) : m.roomId = roomId

isRoomMember(roomId, userId) ==
    \E m \in BagToSet(roomMembers) : m.roomId = roomId /\ m.userId = userId

\* room_members.room_id and user_id are foreign keys: the insert throws when
\* either row is missing.
addRoomMemberOk(roomId, userId) == roomExists(roomId) /\ userExists(userId)

addRoomMember(roomId, userId, role) ==
    roomMembers (+) SetToBag({[roomId |-> roomId, userId |-> userId, role |-> role]})

getRoomMembers(roomId) == {m \in BagToSet(roomMembers) : m.roomId = roomId}

\* getUserRooms: the rooms of the membership rows of the user.
getUserRooms(userId) == {m.roomId : m \in {x \in BagToSet(roomMembers) : x.userId = userId}}

\* Mutant of createRoom: the creator is added with the default role.
createRoom_DefaultRole(isPrivate, creatorId, inviteCode) ==
    [rooms |-> Append(rooms, [isPrivate |-> isPrivate, inviteCode |-> inviteCode,
                              createdBy |-> creatorId]),
     roomMembers |-> addRoomMember(Len(rooms) + 1, creatorId, "member")]

\* createRoom: the room row with the creator and the fresh code, then the
\* creator's membership row with role admin.  Gives both tables.
createRoom(isPrivate, creatorId, inviteCode) ==
    [rooms |-> Append(rooms, [isPrivate |-> isPrivate, inviteCode |-> inviteCode,
                              createdBy |-> creatorId]),
     roomMembers |-> addRoomMember(Len(rooms) + 1, creatorId, "admin")]

(***************************************************************************)
(* Storage: messages                                                       *)
(***************************************************************************)
messageExists(id) == id \in 1..Len(messages)

\* storage.getMessageById: the row; undefined when messageExists(id) is false.
getMessageById(id) == messages[id]

\* insertMessageSchema.parse: id, createdAt and senderId are dropped from the
\* body, content is required, every other column of the table passes through.
insertMessageSchemaOk(body) == body.content # NoText

\* messages.room_id and recipient_id are nullable foreign keys.
createMessageOk(roomId, recipientId) ==
    /\ roomId = NULL \/ roomExists(roomId)
    /\ recipientId = NULL \/ userExists(recipientId)

\* Mutant of createMessage: a senderId in the body wins over the caller's.
createMessage_SenderFromBody(senderId, roomId, recipientId, body) ==
    Append(messages,
           [content |-> body.content,
            senderId |-> IF "senderId" \in DOMAIN body THEN body.senderId ELSE senderId,
            roomId |-> roomId,
            recipientId |-> recipientId, isEdited |-> FALSE,
            isDeleted |-> body.isDeleted, createdAt |-> now])

\* createMessage({ ...messageData, senderId: req.userId }): insert with
\* created_at = now().  messageData is the parsed body, which has no senderId.
createMessage(senderId, roomId, recipientId, body) ==
    Append(messages,
           [content |-> body.content, senderId |-> senderId, roomId |-> roomId,
            recipientId |-> recipientId, isEdited |-> FALSE,
            isDeleted |-> body.isDeleted, createdAt |-> now])

Reverse(s) == [i \in 1..Len(s) |-> s[Len(s) + 1 - i]]

\* Mutant of OrderByCreatedAtDesc: the query has no LIMIT.
RECURSIVE OrderByCreatedAtDesc_NoLimit(_, _)
OrderByCreatedAtDesc_NoLimit(rows, limit) ==
    IF rows = {} THEN <<>>
    ELSE LET newest == CHOOSE m \in rows :
                           \A o \in rows : messages[o].createdAt <= messages[m].createdAt
         IN <<newest>> \o OrderByCreatedAtDesc_NoLimit(rows \ {newest}, limit)

\* ORDER BY created_at DESC LIMIT n over a set of rows (message ids).
RECURSIVE OrderByCreatedAtDesc(_, _)
OrderByCreatedAtDesc(rows, limit) ==
    IF rows = {} \/ limit = 0 THEN <<>>
    ELSE LET newest == CHOOSE m \in rows :
                           \A o \in rows : messages[o].createdAt <= messages[m].createdAt
         IN <<newest>> \o OrderByCreatedAtDesc(rows \ {newest}, limit - 1)

\* The default of the limit parameter of getRoomMessages and getDirectMessages.
DefaultLimit == 50

\* Mutant of getRoomMessages: the array is returned as the query yields it.
getRoomMessages_NewestFirst(roomId, limit) ==
    OrderByCreatedAtDesc(
        {m \in 1..Len(messages) : messages[m].roomId = roomId}, limit)

\* getRoomMessages: the ids of the rows, in the order of the returned array.
getRoomMessages(roomId, limit) ==
    Reverse(OrderByCreatedAtDesc(
        {m \in 1..Len(messages) : messages[m].roomId = roomId}, limit))

\* Mutant of getDirectMessages: the WHERE clause has one direction only.
getDirectMessages_OneDirection(userId1, userId2, limit) ==
    Reverse(OrderByCreatedAtDesc(
        {m \in 1..Len(messages) :
            /\ messages[m].roomId = NULL
            /\ messages[m].senderId = userId1 /\ messages[m].recipientId = userId2},
        limit))

getDirectMessages(userId1, userId2, limit) ==
    Reverse(OrderByCreatedAtDesc(
        {m \in 1..Len(messages) :
            /\ messages[m].roomId = NULL
            /\ \/ messages[m].senderId = userId1 /\ messages[m].recipientId = userId2
               \/ messages[m].senderId = userId2 /\ messages[m].recipientId = userId1},
        limit))

\* What the two listings answer: each row as it is stored ({ ...row.message }),
\* in the order of the ids given.
MessageRows(ids) == [i \in 1..Len(ids) |-> messages[ids[i]]]

\* storage.editMessage: sets the content and marks the row edited.
editMessage(id, content) ==
    IF messageExists(id)
    THEN [messages EXCEPT ![id].content = content, ![id].isEdited = TRUE]
    ELSE messages

\* storage.deleteMessage: soft delete.
deleteMessage(id) ==
    IF messageExists(id) THEN [messages EXCEPT ![id].isDeleted = TRUE] ELSE messages

\* String.prototype.trim on the texts of the model.
trim(content) == IF content \in BlankContents THEN "" ELSE content

(***************************************************************************)
(* Storage: friendships                                                    *)
(***************************************************************************)
friendshipExists(id) == id \in 1..Len(friendships)

createFriendRequest(requesterId, addresseeId) ==
    Append(friendships, [requesterId |-> requesterId, addresseeId |-> addresseeId,
                         status |-> "pending"])

setFriendshipStatus(requestId, status) ==
    IF friendshipExists(requestId)
    THEN [friendships EXCEPT ![requestId].status = status]
    ELSE friendships

acceptFriendRequest(requestId) == setFriendshipStatus(requestId, "accepted")

rejectFriendRequest(requestId) == setFriendshipStatus(requestId, "rejected")

\* Mutant of getFriendsRows: the WHERE clause forgets users.id != userId.
getFriendsRows_WithSelf(userId) ==
    {row \in (1..Len(friendships)) \X (1..Len(users)) :
        LET f == friendships[row[1]]
            u == row[2]
        IN /\ u = f.requesterId \/ u = f.addresseeId
           /\ f.status = "accepted"
           /\ f.requesterId = userId \/ f.addresseeId = userId}

\* getFriends: friendships LEFT JOIN users ON users.id is either end, WHERE the
\* friendship is accepted, userId is either end and users.id != userId.
\* One row <<friendship, user>> per match; the result maps each row to its user.
getFriendsRows(userId) ==
    {row \in (1..Len(friendships)) \X (1..Len(users)) :
        LET f == friendships[row[1]]
            u == row[2]
        IN /\ u = f.requesterId \/ u = f.addresseeId
           /\ f.status = "accepted"
           /\ f.requesterId = userId \/ f.addresseeId = userId
           /\ u # userId}

getFriends(userId) == {row[2] : row \in getFriendsRows(userId)}

Init ==
    /\ users = <<>>
    /\ rooms = <<>>
    /\ roomMembers = EmptyBag
    /\ messages = <<>>
    /\ friendships = <<>>
    /\ now = 1
    /\ last = Request("init", NULL, NULL, NoText, Reply(0, ""))
    /\ deleteRequested = {}
    /\ inflight = {}
    /\ hook = [roomId |-> NULL, loaded |-> FALSE, data |-> <<>>,
               previousMessageCount |-> 0, played |-> FALSE,
               hadPrevious |-> FALSE, previousData |-> <<>>]

(***************************************************************************)
(* POST /api/auth/register                                                 *)
(***************************************************************************)
RegisterReply(email) ==
    IF getUserByEmail(email) # NULL THEN Reply(400, "User already exists")
    ELSE Reply(201, "")

Register(email) ==
    LET reply == RegisterReply(email) IN
    /\ users' = IF reply.status = 201 THEN createUser(email, "online") ELSE users
    /\ last' = Request("register", NULL, NULL, email, reply)
    /\ UNCHANGED <<hook, inflight, rooms, roomMembers, messages, friendships, now, deleteRequested>>

(***************************************************************************)
(* POST /api/auth/login   (validPassword: bcrypt.compare says so)          *)
(***************************************************************************)
\* Mutant of LoginReply: an unknown email is told apart from a wrong password.
LoginReply_UserNotFound(email, validPassword) ==
    IF email = NoText THEN Reply(400, "Email and password required")
    ELSE IF getUserByEmail(email) = NULL THEN Reply(404, "User not found")
    ELSE IF ~validPassword THEN Reply(401, "Invalid credentials")
    ELSE Reply(200, "")

LoginReply(email, validPassword) ==
    IF email = NoText THEN Reply(400, "Email and password required")
    ELSE IF getUserByEmail(email) = NULL THEN Reply(401, "Invalid credentials")
    ELSE IF ~validPassword THEN Reply(401, "Invalid credentials")
    ELSE Reply(200, "")

Login(email, validPassword) ==
    LET reply == LoginReply(email, validPassword) IN
    /\ users' = IF reply.status = 200
                THEN updateUserStatus(getUserByEmail(email), "online")
                ELSE users
    /\ last' = Request("login", NULL, NULL, email, reply)
    /\ UNCHANGED <<hook, inflight, rooms, roomMembers, messages, friendships, now, deleteRequested>>

(***************************************************************************)
(* POST /api/auth/logout                                                   *)
(***************************************************************************)
Logout(uid) ==
    /\ users' = updateUserStatus(uid, "offline")
    /\ last' = Request("logout", uid, NULL, NoText, Reply(200, "Logged out successfully"))
    /\ UNCHANGED <<hook, inflight, rooms, roomMembers, messages, friendships, now, deleteRequested>>

(***************************************************************************)
(* Any route behind authenticateToken, with a bad token: the middleware    *)
(* answers and the handler does not run.                                   *)
(***************************************************************************)
AuthenticatedRoutes ==
    {"logout", "listRooms", "createRoom", "getRoom", "joinRoom", "joinByInviteCode",
     "listMembers", "invite", "addMember", "listRoomMessages", "sendRoomMessage",
     "listDirectMessages", "sendDirectMessage", "editMessage", "deleteMessage",
     "listFriends", "sendFriendRequest", "acceptFriendRequest", "rejectFriendRequest",
     "updateProfile"}

Unauthenticated(route, token) ==
    /\ last' = Request(route, NULL, NULL, token, authenticateTokenReply(token))
    /\ UNCHANGED <<hook, inflight, users, rooms, roomMembers, messages, friendships, now,
                   deleteRequested>>

(***************************************************************************)
(* GET /api/rooms                                                          *)
(***************************************************************************)
ListRooms(uid) ==
    /\ users' = authenticateToken(uid)
    /\ last' = Request("listRooms", uid, NULL, NoText, Reply(200, ""))
    /\ UNCHANGED <<hook, inflight, rooms, roomMembers, messages, friendships, now, deleteRequested>>

(***************************************************************************)
(* POST /api/rooms   (hasName: the body carries the required name)         *)
(***************************************************************************)
CreateRoomReply(uid, hasName, inviteCode) ==
    IF ~hasName THEN Reply(400, "Required")
    ELSE IF inviteCodeTaken(inviteCode, NULL) THEN Reply(500, "Failed to create room")
    ELSE Reply(201, "")

CreateRoom(uid, hasName, isPrivate, inviteCode) ==
    LET reply == CreateRoomReply(uid, hasName, inviteCode) IN
    /\ users' = authenticateToken(uid)
    /\ IF reply.status = 201
       THEN /\ rooms' = createRoom(isPrivate, uid, inviteCode).rooms
            /\ roomMembers' = createRoom(isPrivate, uid, inviteCode).roomMembers
       ELSE UNCHANGED <<rooms, roomMembers>>
    /\ last' = Request("createRoom", uid, Len(rooms'), inviteCode, reply)
    /\ UNCHANGED <<hook, inflight, messages, friendships, now, deleteRequested>>

(***************************************************************************)
(* GET /api/rooms/:id                                                      *)
(***************************************************************************)
GetRoomReply(uid, roomId) ==
    IF ~isRoomMember(roomId, uid) THEN Reply(403, "Not a member of this room")
    ELSE IF ~roomExists(roomId) THEN Reply(404, "Room not found")
    ELSE Reply(200, "")

GetRoom(uid, roomId) ==
    /\ users' = authenticateToken(uid)
    /\ last' = Request("getRoom", uid, roomId, NoText, GetRoomReply(uid, roomId))
    /\ UNCHANGED <<hook, inflight, rooms, roomMembers, messages, friendships, now, deleteRequested>>

(***************************************************************************)
(* POST /api/rooms/:id/join                                                *)
(***************************************************************************)
JoinRoomReply(uid, roomId) ==
    IF isRoomMember(roomId, uid) THEN Reply(400, "Already a member")
    ELSE IF ~addRoomMemberOk(roomId, uid) THEN Reply(500, "Failed to join room")
    ELSE Reply(200, "Joined room successfully")

JoinRoom(uid, roomId) ==
    LET reply == JoinRoomReply(uid, roomId) IN
    /\ users' = authenticateToken(uid)
    /\ roomMembers' = IF reply.status = 200 THEN addRoomMember(roomId, uid, "member")
                      ELSE roomMembers
    /\ last' = Request("joinRoom", uid, roomId, NoText, reply)
    /\ UNCHANGED <<hook, inflight, rooms, messages, friendships, now, deleteRequested>>

(***************************************************************************)
(* POST /api/rooms/join/:inviteCode                                        *)
(***************************************************************************)
\* Mutant of JoinByInviteCodeReply: the handler forgets the membership check.
JoinByInviteCodeReply_NoMemberCheck(uid, inviteCode) ==
    LET room == getRoomByInviteCode(inviteCode) IN
    IF room = NULL THEN Reply(404, "Invalid invite code")
    ELSE Reply(200, "Joined room successfully")

JoinByInviteCodeReply(uid, inviteCode) ==
    LET room == getRoomByInviteCode(inviteCode) IN
    IF room = NULL THEN Reply(404, "Invalid invite code")
    ELSE IF isRoomMember(room, uid) THEN Reply(400, "Already a member")
    ELSE Reply(200, "Joined room successfully")

JoinByInviteCode(uid, inviteCode) ==
    LET reply == JoinByInviteCodeReply(uid, inviteCode) IN
    /\ users' = authenticateToken(uid)
    /\ roomMembers' = IF reply.status = 200
                      THEN addRoomMember(getRoomByInviteCode(inviteCode), uid, "member")
                      ELSE roomMembers
    /\ last' = Request("joinByInviteCode", uid, NULL, inviteCode, reply)
    /\ UNCHANGED <<hook, inflight, rooms, messages, friendships, now, deleteRequested>>

(***************************************************************************)
(* GET /api/rooms/:id/members                                              *)
(***************************************************************************)
ListMembersReply(uid, roomId) ==
    IF ~isRoomMember(roomId, uid) THEN Reply(403, "Not a member of this room")
    ELSE Reply(200, "")

ListMembers(uid, roomId) ==
    /\ users' = authenticateToken(uid)
    /\ last' = Request("listMembers", uid, roomId, NoText,
                       ListMembersReply(uid, roomId))
    /\ UNCHANGED <<hook, inflight, rooms, roomMembers, messages, friendships, now, deleteRequested>>

(***************************************************************************)
(* POST /api/rooms/:id/invite   (inviteCode: what Math.random() yields)    *)
(***************************************************************************)
InviteReply(uid, roomId, inviteCode) ==
    IF ~isRoomMember(roomId, uid) THEN Reply(403, "Not a member of this room")
    ELSE IF inviteCodeTaken(inviteCode, roomId)
         THEN Reply(500, "Failed to generate invite code")
    ELSE Reply(200, "")

Invite(uid, roomId, inviteCode) ==
    LET reply == InviteReply(uid, roomId, inviteCode) IN
    /\ users' = authenticateToken(uid)
    /\ rooms' = IF reply.status = 200 THEN generateInviteCode(roomId, inviteCode)
                ELSE rooms
    /\ last' = Request("invite", uid, roomId, inviteCode, reply)
    /\ UNCHANGED <<hook, inflight, roomMembers, messages, friendships, now, deleteRequested>>

(***************************************************************************)
(* POST /api/rooms/:id/members   (body: email)                             *)
(***************************************************************************)
AddMemberReply(uid, roomId, email) ==
    IF email = NoText THEN Reply(400, "Email is required")
    ELSE IF ~isRoomMember(roomId, uid) THEN Reply(403, "Not a member of this room")
    ELSE IF getUserByEmail(email) = NULL THEN Reply(404, "User not found")
    ELSE IF isRoomMember(roomId, getUserByEmail(email))
         THEN Reply(400, "User is already a member")
    ELSE IF ~addRoomMemberOk(roomId, getUserByEmail(email))
         THEN Reply(500, "Failed to add member")
    ELSE Reply(200, "User added to room successfully")

AddMember(uid, roomId, email) ==
    LET reply == AddMemberReply(uid, roomId, email) IN
    /\ users' = authenticateToken(uid)
    /\ roomMembers' = IF reply.status = 200
                      THEN addRoomMember(roomId, getUserByEmail(email), "member")
                      ELSE roomMembers
    /\ last' = Request("addMember", uid, roomId, email, reply)
    /\ UNCHANGED <<hook, inflight, rooms, messages, friendships, now, deleteRequested>>

(***************************************************************************)
(* GET /api/rooms/:id/messages                                             *)
(***************************************************************************)
ListRoomMessagesReply(uid, roomId) ==
    IF ~isRoomMember(roomId, uid) THEN Reply(403, "Not a member of this room")
    ELSE Reply(200, "")

ListRoomMessages(uid, roomId) ==
    /\ users' = authenticateToken(uid)
    /\ last' = Request("listRoomMessages", uid, roomId, NoText,
                       ListRoomMessagesReply(uid, roomId))
    /\ UNCHANGED <<hook, inflight, rooms, roomMembers, messages, friendships, now, deleteRequested>>

(***************************************************************************)
(* POST /api/rooms/:id/messages                                            *)
(* body: content, and the optional columns recipientId and isDeleted       *)
(***************************************************************************)
MessageBody(content, recipientId, isDeleted) ==
    [content |-> content, recipientId |-> recipientId, isDeleted |-> isDeleted]

\* A body that also names a sender.
MessageBodyFrom(content, recipientId, isDeleted, senderId) ==
    [content |-> content, recipientId |-> recipientId, isDeleted |-> isDeleted,
     senderId |-> senderId]

\* insertMessageSchema.parse({ ...req.body, roomId }): the path's room
\* replaces the body's, the body's recipientId stays.
SendRoomMessageTarget(roomId, body) ==
    [roomId |-> roomId, recipientId |-> body.recipientId]

SendRoomMessageReply(uid, roomId, body) ==
    IF ~isRoomMember(roomId, uid) THEN Reply(403, "Not a member of this room")
    ELSE IF ~insertMessageSchemaOk(body) THEN Reply(400, "Required")
    ELSE IF ~createMessageOk(SendRoomMessageTarget(roomId, body).roomId,
                             SendRoomMessageTarget(roomId, body).recipientId)
         THEN Reply(500, "Failed to send message")
    ELSE Reply(201, "")

SendRoomMessage(uid, roomId, body) ==
    LET reply == SendRoomMessageReply(uid, roomId, body)
        target == SendRoomMessageTarget(roomId, body)
    IN
    /\ users' = authenticateToken(uid)
    /\ IF reply.status = 201
       THEN /\ messages' = createMessage(uid, target.roomId, target.recipientId, body)
            /\ now' = now + 1
       ELSE UNCHANGED <<messages, now>>
    /\ last' = Request("sendRoomMessage", uid, roomId, NoText, reply)
    /\ UNCHANGED <<hook, inflight, rooms, roomMembers, friendships, deleteRequested>>

(***************************************************************************)
(* GET /api/direct/:userId/messages                                        *)
(***************************************************************************)
ListDirectMessages(uid, otherUserId) ==
    /\ users' = authenticateToken(uid)
    /\ last' = Request("listDirectMessages", uid, otherUserId, NoText, Reply(200, ""))
    /\ UNCHANGED <<hook, inflight, rooms, roomMembers, messages, friendships, now, deleteRequested>>

(***************************************************************************)
(* POST /api/direct/:userId/messages                                       *)
(***************************************************************************)
\* insertMessageSchema.parse({ ...req.body, recipientId, roomId: null })
SendDirectMessageTarget(recipientId, body) ==
    [roomId |-> NULL, recipientId |-> recipientId]

SendDirectMessageReply(uid, recipientId, body) ==
    IF ~insertMessageSchemaOk(body) THEN Reply(400, "Required")
    ELSE IF ~createMessageOk(SendDirectMessageTarget(recipientId, body).roomId,
                             SendDirectMessageTarget(recipientId, body).recipientId)
         THEN Reply(500, "Failed to send direct message")
    ELSE Reply(201, "")

SendDirectMessage(uid, recipientId, body) ==
    LET reply == SendDirectMessageReply(uid, recipientId, body)
        target == SendDirectMessageTarget(recipientId, body)
    IN
    /\ users' = authenticateToken(uid)
    /\ IF reply.status = 201
       THEN /\ messages' = createMessage(uid, target.roomId, target.recipientId, body)
            /\ now' = now + 1
       ELSE UNCHANGED <<messages, now>>
    /\ last' = Request("sendDirectMessage", uid, recipientId, NoText, reply)
    /\ UNCHANGED <<hook, inflight, rooms, roomMembers, friendships, deleteRequested>>

(***************************************************************************)
(* PUT /api/messages/:id   (body: content)                                 *)
(***************************************************************************)
\* Mutant of EditMessageReply: the handler forgets the soft-delete flag.
EditMessageReply_NoDeletedCheck(uid, messageId, content) ==
    IF content = NoText \/ content = "" \/ trim(content) = ""
    THEN Reply(400, "Message content is required")
    ELSE IF ~messageExists(messageId) THEN Reply(404, "Message not found")
    ELSE IF getMessageById(messageId).senderId # uid
         THEN Reply(403, "You can only edit your own messages")
    ELSE Reply(200, "")

EditMessageReply(uid, messageId, content) ==
    IF content = NoText \/ content = "" \/ trim(content) = ""
    THEN Reply(400, "Message content is required")
    ELSE IF ~messageExists(messageId) THEN Reply(404, "Message not found")
    ELSE IF getMessageById(messageId).senderId # uid
         THEN Reply(403, "You can only edit your own messages")
    ELSE IF getMessageById(messageId).isDeleted
         THEN Reply(400, "Cannot edit deleted message")
    ELSE Reply(200, "")

EditMessage(uid, messageId, content) ==
    LET reply == EditMessageReply(uid, messageId, content) IN
    /\ users' = authenticateToken(uid)
    /\ messages' = IF reply.status = 200 THEN editMessage(messageId, content)
                   ELSE messages
    /\ last' = Request("editMessage", uid, messageId, content, reply)
    /\ UNCHANGED <<hook, inflight, rooms, roomMembers, friendships, now, deleteRequested>>

(***************************************************************************)
(* DELETE /api/messages/:id                                                *)
(***************************************************************************)
\* Mutant of DeleteMessageReply: the soft-delete flag is tested before the owner.
DeleteMessageReply_DeletedFirst(uid, messageId) ==
    IF ~messageExists(messageId) THEN Reply(404, "Message not found")
    ELSE IF getMessageById(messageId).isDeleted
         THEN Reply(400, "Message already deleted")
    ELSE IF getMessageById(messageId).senderId # uid
         THEN Reply(403, "You can only delete your own messages")
    ELSE Reply(200, "Message deleted successfully")

DeleteMessageReply(uid, messageId) ==
    IF ~messageExists(messageId) THEN Reply(404, "Message not found")
    ELSE IF getMessageById(messageId).senderId # uid
         THEN Reply(403, "You can only delete your own messages")
    ELSE IF getMessageById(messageId).isDeleted
         THEN Reply(400, "Message already deleted")
    ELSE Reply(200, "Message deleted successfully")

DeleteMessage(uid, messageId) ==
    LET reply == DeleteMessageReply(uid, messageId) IN
    /\ users' = authenticateToken(uid)
    /\ messages' = IF reply.status = 200 THEN deleteMessage(messageId) ELSE messages
    /\ last' = Request("deleteMessage", uid, messageId, NoText, reply)
    /\ deleteRequested' =
          IF messageExists(messageId) /\ getMessageById(messageId).senderId = uid
          THEN deleteRequested \cup {messageId}
          ELSE deleteRequested
    /\ UNCHANGED <<hook, inflight, rooms, roomMembers, friendships, now>>

(***************************************************************************)
(* POST /api/friends/:userId                                               *)
(***************************************************************************)
\* Mutant of SendFriendRequestReply: the handler does not compare the two ids.
SendFriendRequestReply_NoSelfCheck(uid, addresseeId) ==
    IF ~userExists(addresseeId) THEN Reply(500, "Failed to send friend request")
    ELSE Reply(201, "")

SendFriendRequestReply(uid, addresseeId) ==
    IF addresseeId = uid THEN Reply(400, "Cannot add yourself as friend")
    ELSE IF ~userExists(addresseeId) THEN Reply(500, "Failed to send friend request")
    ELSE Reply(201, "")

SendFriendRequest(uid, addresseeId) ==
    LET reply == SendFriendRequestReply(uid, addresseeId) IN
    /\ users' = authenticateToken(uid)
    /\ friendships' = IF reply.status = 201 THEN createFriendRequest(uid, addresseeId)
                      ELSE friendships
    /\ last' = Request("sendFriendRequest", uid, addresseeId, NoText, reply)
    /\ UNCHANGED <<hook, inflight, rooms, roomMembers, messages, now, deleteRequested>>

(***************************************************************************)
(* PUT /api/friends/requests/:id/accept and .../reject                     *)
(***************************************************************************)
AcceptFriendRequest(uid, requestId) ==
    /\ users' = authenticateToken(uid)
    /\ friendships' = acceptFriendRequest(requestId)
    /\ last' = Request("acceptFriendRequest", uid, requestId, NoText,
                       Reply(200, "Friend request accepted"))
    /\ UNCHANGED <<hook, inflight, rooms, roomMembers, messages, now, deleteRequested>>

RejectFriendRequest(uid, requestId) ==
    /\ users' = authenticateToken(uid)
    /\ friendships' = rejectFriendRequest(requestId)
    /\ last' = Request("rejectFriendRequest", uid, requestId, NoText,
                       Reply(200, "Friend request rejected"))
    /\ UNCHANGED <<hook, inflight, rooms, roomMembers, messages, now, deleteRequested>>

(***************************************************************************)
(* GET /api/friends                                                        *)
(***************************************************************************)
ListFriends(uid) ==
    /\ users' = authenticateToken(uid)
    /\ last' = Request("listFriends", uid, NULL, NoText, Reply(200, ""))
    /\ UNCHANGED <<hook, inflight, rooms, roomMembers, messages, friendships, now, deleteRequested>>

(***************************************************************************)
(* Handlers step by step.  A handler awaits each storage call, and other   *)
(* requests are served between two awaits.  A request that has passed the  *)
(* checks of its handler and has not made its insert yet is in flight:     *)
(* rid names it, op is its route, uid its caller, roomId and userId the    *)
(* row it is about to insert, arg and text what `last` will say of it.     *)
(***************************************************************************)
InFlight(rid, op, uid, roomId, userId, arg, text) ==
    [rid |-> rid, op |-> op, uid |-> uid, roomId |-> roomId, userId |-> userId,
     arg |-> arg, text |-> text]

ridFree(rid) == \A req \in inflight : req.rid # rid

\* POST /api/auth/register up to the await of bcrypt.hash: no user has the email.
RegisterBegin(rid, email) ==
    /\ ridFree(rid)
    /\ getUserByEmail(email) = NULL
    /\ inflight' = inflight \cup {InFlight(rid, "register", NULL, NULL, NULL, NULL, email)}
    /\ UNCHANGED <<hook, users, rooms, roomMembers, messages, friendships, now, last,
                   deleteRequested>>

\* users.email is UNIQUE: the insert throws when the email has been taken
\* meanwhile, and the handler's catch answers 500.
RegisterInsertReply(email) ==
    IF getUserByEmail(email) # NULL THEN Reply(500, "Registration failed")
    ELSE Reply(201, "")

\* ... and from storage.createUser on.
RegisterInsert(rid) ==
    \E req \in inflight :
        LET reply == RegisterInsertReply(req.text) IN
        /\ req.rid = rid /\ req.op = "register"
        /\ users' = IF reply.status = 201 THEN createUser(req.text, "online") ELSE users
        /\ last' = Request("register", NULL, NULL, req.text, reply)
        /\ inflight' = inflight \ {req}
        /\ UNCHANGED <<hook, rooms, roomMembers, messages, friendships, now, deleteRequested>>

\* PUT /api/user/me with an email in the body: updateUser sets it, and the
\* unique index refuses the email of another user (the handler answers 500).
UpdateProfileReply(uid, email) ==
    IF getUserByEmail(email) \notin {NULL, uid} THEN Reply(500, "Failed to update user")
    ELSE Reply(200, "")

updateUser(id, email) ==
    IF userExists(id) THEN [users EXCEPT ![id].email = email] ELSE users

UpdateProfile(uid, email) ==
    LET reply == UpdateProfileReply(uid, email) IN
    /\ users' = IF reply.status = 200
                THEN [updateUser(uid, email) EXCEPT ![uid].status = "online"]
                ELSE authenticateToken(uid)
    /\ last' = Request("updateProfile", uid, uid, email, reply)
    /\ UNCHANGED <<hook, inflight, rooms, roomMembers, messages, friendships, now,
                   deleteRequested>>

\* POST /api/rooms/:id/join up to the await of isRoomMember, which says no.
JoinRoomBegin(rid, uid, roomId) ==
    /\ ridFree(rid)
    /\ ~isRoomMember(roomId, uid)
    /\ users' = authenticateToken(uid)
    /\ inflight' = inflight \cup
          {InFlight(rid, "joinRoom", uid, roomId, uid, roomId, NoText)}
    /\ UNCHANGED <<hook, rooms, roomMembers, messages, friendships, now, last, deleteRequested>>

\* POST /api/rooms/join/:inviteCode up to the await of isRoomMember, which says no.
JoinByInviteCodeBegin(rid, uid, inviteCode) ==
    /\ ridFree(rid)
    /\ getRoomByInviteCode(inviteCode) # NULL
    /\ ~isRoomMember(getRoomByInviteCode(inviteCode), uid)
    /\ users' = authenticateToken(uid)
    /\ inflight' = inflight \cup
          {InFlight(rid, "joinByInviteCode", uid, getRoomByInviteCode(inviteCode), uid,
                    NULL, inviteCode)}
    /\ UNCHANGED <<hook, rooms, roomMembers, messages, friendships, now, last, deleteRequested>>

\* POST /api/rooms/:id/members up to the await of the second isRoomMember,
\* which says the user of the email is no member.
AddMemberBegin(rid, uid, roomId, email) ==
    /\ ridFree(rid)
    /\ email # NoText
    /\ isRoomMember(roomId, uid)
    /\ getUserByEmail(email) # NULL
    /\ ~isRoomMember(roomId, getUserByEmail(email))
    /\ users' = authenticateToken(uid)
    /\ inflight' = inflight \cup
          {InFlight(rid, "addMember", uid, roomId, getUserByEmail(email), roomId, email)}
    /\ UNCHANGED <<hook, rooms, roomMembers, messages, friendships, now, last, deleteRequested>>

\* The three routes from storage.addRoomMember on: room_members has no unique
\* index, so the insert is refused only for a missing room or user.
InsertMembershipReply(req) ==
    IF ~addRoomMemberOk(req.roomId, req.userId)
    THEN Reply(500, IF req.op = "addMember" THEN "Failed to add member"
                    ELSE "Failed to join room")
    ELSE Reply(200, IF req.op = "addMember" THEN "User added to room successfully"
                    ELSE "Joined room successfully")

InsertMembership(rid) ==
    \E req \in inflight :
        LET reply == InsertMembershipReply(req) IN
        /\ req.rid = rid /\ req.op \in {"joinRoom", "joinByInviteCode", "addMember"}
        /\ roomMembers' = IF reply.status = 200
                          THEN addRoomMember(req.roomId, req.userId, "member")
                          ELSE roomMembers
        /\ last' = Request(req.op, req.uid, req.arg, req.text, reply)
        /\ inflight' = inflight \ {req}
        /\ UNCHANGED <<hook, users, rooms, messages, friendships, now, deleteRequested>>

\* POST /api/rooms through the first insert of storage.createRoom: the room row.
CreateRoomBegin(rid, uid, isPrivate, inviteCode) ==
    /\ ridFree(rid)
    /\ ~inviteCodeTaken(inviteCode, NULL)
    /\ users' = authenticateToken(uid)
    /\ rooms' = createRoom(isPrivate, uid, inviteCode).rooms
    /\ inflight' = inflight \cup
          {InFlight(rid, "createRoom", uid, Len(rooms) + 1, uid, Len(rooms) + 1,
                    inviteCode)}
    /\ UNCHANGED <<hook, roomMembers, messages, friendships, now, last, deleteRequested>>

\* ... the second insert, the creator's row, and the response.
CreateRoomFinish(rid) ==
    \E req \in inflight :
        /\ req.rid = rid /\ req.op = "createRoom"
        /\ roomMembers' = addRoomMember(req.roomId, req.userId, "admin")
        /\ last' = Request("createRoom", req.uid, req.arg, req.text, Reply(201, ""))
        /\ inflight' = inflight \ {req}
        /\ UNCHANGED <<hook, users, rooms, messages, friendships, now, deleteRequested>>

\* ... or the second insert throws (the connection is lost, the statement
\* times out): createRoom has no transaction, the room row stays, and the
\* handler's catch answers 500.
CreateRoomFail(rid) ==
    \E req \in inflight :
        /\ req.rid = rid /\ req.op = "createRoom"
        /\ last' = Request("createRoom", req.uid, req.arg, req.text,
                           Reply(500, "Failed to create room"))
        /\ inflight' = inflight \ {req}
        /\ UNCHANGED <<hook, users, rooms, roomMembers, messages, friendships, now,
                       deleteRequested>>

\* PUT /api/messages/:id up to the await of storage.editMessage: the row read
\* by getMessageById has passed every check of the handler.
EditMessageBegin(rid, uid, messageId, content) ==
    /\ ridFree(rid)
    /\ EditMessageReply(uid, messageId, content).status = 200
    /\ users' = authenticateToken(uid)
    /\ inflight' = inflight \cup
          {InFlight(rid, "editMessage", uid, NULL, NULL, messageId, content)}
    /\ UNCHANGED <<hook, rooms, roomMembers, messages, friendships, now, last, deleteRequested>>

\* ... and from storage.editMessage on: the update is made on the row as it
\* is now, and the handler answers with it.
EditMessageUpdate(rid) ==
    \E req \in inflight :
        /\ req.rid = rid /\ req.op = "editMessage"
        /\ messages' = editMessage(req.arg, req.text)
        /\ last' = Request("editMessage", req.uid, req.arg, req.text, Reply(200, ""))
        /\ inflight' = inflight \ {req}
        /\ UNCHANGED <<hook, users, rooms, roomMembers, friendships, now, deleteRequested>>

\* The 201 response of a send: the request, the id of the row its insert
\* returned (message.id) and the id of the row in the response body.
SentResponse(op, uid, arg, created, returned) ==
    [op |-> op, uid |-> uid, arg |-> arg, text |-> NoText, status |-> 201,
     message |-> "", created |-> created, returned |-> returned]

\* POST /api/rooms/:id/messages up to the await of storage.getRoomMessages:
\* the checks have passed and the message is inserted.
SendRoomMessageInsert(rid, uid, roomId, body) ==
    LET target == SendRoomMessageTarget(roomId, body) IN
    /\ ridFree(rid)
    /\ SendRoomMessageReply(uid, roomId, body).status = 201
    /\ users' = authenticateToken(uid)
    /\ messages' = createMessage(uid, target.roomId, target.recipientId, body)
    /\ now' = now + 1
    /\ inflight' = inflight \cup
          {InFlight(rid, "sendRoomMessage", uid, roomId, NULL, Len(messages) + 1, NoText)}
    /\ UNCHANGED <<hook, rooms, roomMembers, friendships, last, deleteRequested>>

\* ... and from there on: the response is messageWithSender[0], the first
\* row of storage.getRoomMessages(roomId, 1).
SendRoomMessageRespond(rid) ==
    \E req \in inflight :
        LET messageWithSender == getRoomMessages(req.roomId, 1) IN
        /\ req.rid = rid /\ req.op = "sendRoomMessage"
        /\ last' = SentResponse("sendRoomMessage", req.uid, req.roomId, req.arg,
                                messageWithSender[1])
        /\ inflight' = inflight \ {req}
        /\ UNCHANGED <<hook, users, rooms, roomMembers, messages, friendships, now,
                       deleteRequested>>

\* POST /api/direct/:userId/messages up to the await of storage.getDirectMessages.
SendDirectMessageInsert(rid, uid, recipientId, body) ==
    LET target == SendDirectMessageTarget(recipientId, body) IN
    /\ ridFree(rid)
    /\ SendDirectMessageReply(uid, recipientId, body).status = 201
    /\ users' = authenticateToken(uid)
    /\ messages' = createMessage(uid, target.roomId, target.recipientId, body)
    /\ now' = now + 1
    /\ inflight' = inflight \cup
          {InFlight(rid, "sendDirectMessage", uid, NULL, recipientId,
                    Len(messages) + 1, NoText)}
    /\ UNCHANGED <<hook, rooms, roomMembers, friendships, last, deleteRequested>>

\* ... and from there on: the response is the first row of
\* storage.getDirectMessages(req.userId, recipientId, 1).
SendDirectMessageRespond(rid) ==
    \E req \in inflight :
        LET messageWithSender == getDirectMessages(req.uid, req.userId, 1) IN
        /\ req.rid = rid /\ req.op = "sendDirectMessage"
        /\ last' = SentResponse("sendDirectMessage", req.uid, req.userId, req.arg,
                                messageWithSender[1])
        /\ inflight' = inflight \ {req}
        /\ UNCHANGED <<hook, users, rooms, roomMembers, messages, friendships, now,
                       deleteRequested>>

(***************************************************************************)
(* The client.  ChatArea calls useRoomMessages(activeRoomId) and is not    *)
(* remounted when the active room changes, so the hook's ref lives on.     *)
(* hook.roomId is the active room, loaded and data are query.data (not     *)
(* loaded: undefined), previousMessageCount is the ref, played says        *)
(* whether dmSound.play() ran on the latest result.  History: hadPrevious  *)
(* and previousData are the result before the latest of the same room.     *)
(***************************************************************************)
\* setActiveRoomId(roomId): the query key changes and query.data is
\* undefined until the first result; the effect's condition is false.
SelectRoom(roomId) ==
    /\ roomId # hook.roomId
    /\ hook' = [hook EXCEPT !.roomId = roomId, !.loaded = FALSE, !.data = <<>>,
                            !.played = FALSE, !.hadPrevious = FALSE,
                            !.previousData = <<>>]
    /\ UNCHANGED <<users, rooms, roomMembers, messages, friendships, now, last,
                   deleteRequested, inflight>>

\* The effect of useRoomMessages on a result of the query.
useRoomMessagesEffect(data) ==
    LET currentMessageCount == Len(data) IN
    [hook EXCEPT !.loaded = TRUE, !.data = data,
                 !.played = /\ hook.previousMessageCount > 0
                            /\ currentMessageCount > hook.previousMessageCount,
                 !.previousMessageCount = currentMessageCount,
                 !.hadPrevious = hook.loaded, !.previousData = hook.data]

\* A poll of the active room (refetchInterval) by the client of user uid:
\* GET /api/rooms/:id/messages, and the effect when it is answered 200.
PollRoomMessages(uid) ==
    LET reply == ListRoomMessagesReply(uid, hook.roomId) IN
    /\ hook.roomId # NULL
    /\ users' = authenticateToken(uid)
    /\ last' = Request("listRoomMessages", uid, hook.roomId, NoText, reply)
    /\ hook' = IF reply.status = 200
               THEN useRoomMessagesEffect(getRoomMessages(hook.roomId, DefaultLimit))
               ELSE hook
    /\ UNCHANGED <<rooms, roomMembers, messages, friendships, now, deleteRequested,
                   inflight>>

(***************************************************************************)
(* Specifications.  A valid token names a registered user (tokens are      *)
(* signed at registration and login only, and users are never deleted).    *)
(***************************************************************************)
Callers == 1..Len(users)

\* Texts a send carries (or none), texts an edit carries.
SendContents == {"hi", NoText}
EditContents == Contents \cup BlankContents

\* Rooms, memberships and invite codes.
NextRooms ==
    \/ \E email \in Emails : Register(email)
    \/ \E uid \in Callers, hasName \in BOOLEAN, isPrivate \in BOOLEAN, code \in Codes :
          Len(rooms) < MaxRooms /\ CreateRoom(uid, hasName, isPrivate, code)
    \/ \E uid \in Callers, roomId \in RoomIds : JoinRoom(uid, roomId)
    \/ \E uid \in Callers, code \in Codes : JoinByInviteCode(uid, code)
    \/ \E uid \in Callers, roomId \in RoomIds, code \in Codes : Invite(uid, roomId, code)
    \/ \E uid \in Callers, roomId \in RoomIds, email \in Emails :
          AddMember(uid, roomId, email)

\* Invite codes: their regeneration and the joins they admit.
NextInvites ==
    \/ \E email \in Emails : Register(email)
    \/ \E uid \in Callers, isPrivate \in BOOLEAN, code \in Codes :
          Len(rooms) < MaxRooms /\ CreateRoom(uid, TRUE, isPrivate, code)
    \/ \E uid \in Callers, code \in Codes : JoinByInviteCode(uid, code)
    \/ \E uid \in Callers, roomId \in RoomIds, code \in Codes : Invite(uid, roomId, code)

\* Joins of the same room racing each other.
NextJoinRaces ==
    \/ \E email \in Emails : Register(email)
    \/ \E uid \in Callers, code \in Codes :
          Len(rooms) < MaxChatRooms /\ CreateRoom(uid, TRUE, FALSE, code)
    \/ \E rid \in Rids, uid \in Callers, roomId \in RoomIds : JoinRoomBegin(rid, uid, roomId)
    \/ \E rid \in Rids, uid \in Callers, code \in Codes :
          JoinByInviteCodeBegin(rid, uid, code)
    \/ \E rid \in Rids, uid \in Callers, roomId \in RoomIds, email \in Emails :
          AddMemberBegin(rid, uid, roomId, email)
    \/ \E rid \in Rids : InsertMembership(rid)

\* A room creation that may fail half way, and what can then be done with the room.
NextCreateRoom ==
    \/ \E email \in Emails : Register(email)
    \/ \E rid \in Rids, uid \in Callers, isPrivate \in BOOLEAN, code \in Codes :
          Len(rooms) < MaxChatRooms /\ CreateRoomBegin(rid, uid, isPrivate, code)
    \/ \E rid \in Rids : CreateRoomFinish(rid)
    \/ \E rid \in Rids : CreateRoomFail(rid)
    \/ \E uid \in Callers : ListRooms(uid)
    \/ \E uid \in Callers, roomId \in RoomIds : GetRoom(uid, roomId)
    \/ \E uid \in Callers, roomId \in RoomIds : JoinRoom(uid, roomId)
    \/ \E uid \in Callers, code \in Codes : JoinByInviteCode(uid, code)
    \/ \E uid \in Callers, roomId \in RoomIds : ListRoomMessages(uid, roomId)

\* Tokens and presence.
NextAuth ==
    \/ \E email \in Emails : Register(email)
    \/ \E email \in Emails \cup {NoText}, validPassword \in BOOLEAN :
          Login(email, validPassword)
    \/ \E uid \in Callers : Logout(uid)
    \/ \E uid \in Callers : ListFriends(uid)
    \/ \E route \in AuthenticatedRoutes, token \in BadTokens : Unauthenticated(route, token)

\* Registrations racing each other, and profile updates.
NextSignup ==
    \/ \E email \in Emails : Register(email)
    \/ \E rid \in Rids, email \in Emails : RegisterBegin(rid, email)
    \/ \E rid \in Rids : RegisterInsert(rid)
    \/ \E uid \in Callers, email \in ProfileEmails : UpdateProfile(uid, email)

\* The room-scoped routes behind the membership check.
NextAccess ==
    \/ \E email \in Emails : Register(email)
    \/ \E uid \in Callers, code \in Codes :
          Len(rooms) < MaxChatRooms /\ CreateRoom(uid, TRUE, TRUE, code)
    \/ \E uid \in Callers, roomId \in RoomIds : GetRoom(uid, roomId)
    \/ \E uid \in Callers, roomId \in RoomIds : ListMembers(uid, roomId)
    \/ \E uid \in Callers, roomId \in RoomIds, code \in Codes : Invite(uid, roomId, code)
    \/ \E uid \in Callers, roomId \in RoomIds, email \in Emails \cup {NoText} :
          AddMember(uid, roomId, email)
    \/ \E uid \in Callers, roomId \in RoomIds : ListRoomMessages(uid, roomId)
    \/ \E uid \in Callers, roomId \in RoomIds, content \in SendContents :
          /\ Len(messages) < MaxPosts
          /\ SendRoomMessage(uid, roomId, MessageBody(content, NULL, FALSE))

\* Sending and listing messages.
NextMessages ==
    \/ \E email \in Emails : Register(email)
    \/ \E uid \in Callers, code \in Codes :
          Len(rooms) < MaxChatRooms /\ CreateRoom(uid, TRUE, FALSE, code)
    \/ \E uid \in Callers, roomId \in RoomIds : ListRoomMessages(uid, roomId)
    \/ \E uid \in Callers, roomId \in RoomIds, content \in SendContents,
          recipientId \in {NULL} \cup UserIds :
          /\ Len(messages) < MaxMessages
          /\ SendRoomMessage(uid, roomId, MessageBody(content, recipientId, FALSE))
    \/ \E uid \in Callers, recipientId \in UserIds, content \in SendContents :
          /\ Len(messages) < MaxMessages
          /\ SendDirectMessage(uid, recipientId, MessageBody(content, NULL, FALSE))

\* One room filling up with messages, and its listing.
NextListing ==
    \/ \E email \in Emails : Register(email)
    \/ \E uid \in Callers :
          Len(rooms) < MaxChatRooms /\ CreateRoom(uid, TRUE, FALSE, "c1")
    \/ \E uid \in Callers, roomId \in RoomIds : ListRoomMessages(uid, roomId)
    \/ \E uid \in Callers, roomId \in RoomIds :
          /\ Len(messages) < MaxListed
          /\ SendRoomMessage(uid, roomId, MessageBody("hi", NULL, FALSE))

\* Direct messages among three users, next to a room.  The users register
\* one after the other, each with an email of its own.
NextDirect ==
    \/ Len(users) < Len(ThreeEmails) /\ Register(ThreeEmails[Len(users) + 1])
    \/ \E uid \in Callers :
          Len(rooms) < MaxChatRooms /\ CreateRoom(uid, TRUE, FALSE, "c1")
    \/ \E uid \in Callers : ListRooms(uid)
    \/ \E uid \in Callers, roomId \in RoomIds : ListRoomMessages(uid, roomId)
    \/ \E uid \in Callers, otherUserId \in Callers : ListDirectMessages(uid, otherUserId)
    \/ \E uid \in Callers, roomId \in RoomIds, recipientId \in {NULL, 1} :
          /\ Len(messages) < MaxMessages
          /\ SendRoomMessage(uid, roomId, MessageBody("hi", recipientId, FALSE))
    \/ \E uid \in Callers, recipientId \in Callers :
          /\ Len(messages) < MaxMessages
          /\ SendDirectMessage(uid, recipientId, MessageBody("hi", NULL, FALSE))

\* Deleted messages and the listings that hold them.
NextRedaction ==
    \/ \E email \in Emails : Register(email)
    \/ \E uid \in Callers :
          Len(rooms) < MaxChatRooms /\ CreateRoom(uid, TRUE, FALSE, "c1")
    \/ \E uid \in Callers, roomId \in RoomIds : JoinRoom(uid, roomId)
    \/ \E uid \in Callers, roomId \in RoomIds, isDeleted \in BOOLEAN :
          /\ Len(messages) < MaxMessages
          /\ SendRoomMessage(uid, roomId, MessageBody("hi", NULL, isDeleted))
    \/ \E uid \in Callers, recipientId \in Callers, isDeleted \in BOOLEAN :
          /\ Len(messages) < MaxMessages
          /\ SendDirectMessage(uid, recipientId, MessageBody("hi", NULL, isDeleted))
    \/ \E uid \in Callers, messageId \in MessageIds : DeleteMessage(uid, messageId)
    \/ \E uid \in Callers, roomId \in RoomIds : ListRoomMessages(uid, roomId)
    \/ \E uid \in Callers, otherUserId \in Callers : ListDirectMessages(uid, otherUserId)

\* Editing and deleting messages.
NextLedger ==
    \/ \E email \in Emails : Register(email)
    \/ \E uid \in Callers, isDeleted \in BOOLEAN :
          /\ Len(messages) < MaxMessages
          /\ SendDirectMessage(uid, 1, MessageBody("hi", NULL, isDeleted))
    \/ \E uid \in Callers, messageId \in MessageIds, content \in EditContents :
          EditMessage(uid, messageId, content)
    \/ \E uid \in Callers, messageId \in MessageIds : DeleteMessage(uid, messageId)

\* An edit and a delete of the same message racing each other.
NextEditRaces ==
    \/ \E email \in Emails : Register(email)
    \/ \E uid \in Callers :
          /\ Len(messages) < MaxPosts
          /\ SendDirectMessage(uid, 1, MessageBody("hi", NULL, FALSE))
    \/ \E rid \in Rids, uid \in Callers, messageId \in 1..MaxPosts, content \in Contents :
          EditMessageBegin(rid, uid, messageId, content)
    \/ \E rid \in Rids : EditMessageUpdate(rid)
    \/ \E uid \in Callers, messageId \in 1..MaxPosts : EditMessage(uid, messageId, "yo")
    \/ \E uid \in Callers, messageId \in 1..MaxPosts : DeleteMessage(uid, messageId)

\* Messages sent with the id of another user as senderId in the body, then
\* edited and deleted.
NextFrames ==
    \/ \E email \in Emails : Register(email)
    \/ \E uid \in Callers :
          Len(rooms) < MaxChatRooms /\ CreateRoom(uid, TRUE, FALSE, "c1")
    \/ \E uid \in Callers, roomId \in RoomIds : \E senderId \in UserIds \ {uid} :
          /\ Len(messages) < MaxMessages
          /\ SendRoomMessage(uid, roomId, MessageBodyFrom("hi", NULL, FALSE, senderId))
    \/ \E uid \in Callers, recipientId \in Callers : \E senderId \in UserIds \ {uid} :
          /\ Len(messages) < MaxMessages
          /\ SendDirectMessage(uid, recipientId,
                               MessageBodyFrom("hi", NULL, FALSE, senderId))
    \/ \E uid \in Callers, messageId \in MessageIds : EditMessage(uid, messageId, "yo")
    \/ \E uid \in Callers, messageId \in MessageIds : DeleteMessage(uid, messageId)

\* Requests that are refused, from users who are online and users who have
\* logged out and still hold their token.
NextRejections ==
    \/ \E email \in Emails : Register(email)
    \/ \E uid \in Callers : Logout(uid)
    \/ \E uid \in Callers, hasName \in BOOLEAN :
          Len(rooms) < MaxChatRooms /\ CreateRoom(uid, hasName, TRUE, "c1")
    \/ \E uid \in Callers, roomId \in RoomIds : GetRoom(uid, roomId)
    \/ \E uid \in Callers, roomId \in RoomIds, email \in Emails \cup {NoText} :
          AddMember(uid, roomId, email)
    \/ \E route \in {"createRoom", "addMember"}, token \in BadTokens :
          Unauthenticated(route, token)

\* Sends to the same conversation racing each other.
NextSendRaces ==
    \/ \E email \in Emails : Register(email)
    \/ \E uid \in Callers :
          Len(rooms) < MaxChatRooms /\ CreateRoom(uid, TRUE, FALSE, "c1")
    \/ \E uid \in Callers, roomId \in RoomIds : JoinRoom(uid, roomId)
    \/ \E rid \in Rids, uid \in Callers, roomId \in RoomIds :
          /\ Len(messages) < MaxMessages
          /\ SendRoomMessageInsert(rid, uid, roomId, MessageBody("hi", NULL, FALSE))
    \/ \E rid \in Rids : SendRoomMessageRespond(rid)
    \/ \E rid \in Rids, uid \in Callers, recipientId \in Callers :
          /\ Len(messages) < MaxMessages
          /\ SendDirectMessageInsert(rid, uid, recipientId, MessageBody("hi", NULL, FALSE))
    \/ \E rid \in Rids : SendDirectMessageRespond(rid)

\* The client of the first user polling the rooms that user has created.
NextPolling ==
    \/ \E email \in Emails : Register(email)
    \/ \E code \in {"c1", "c2"} :
          /\ Len(users) >= 1 /\ Len(rooms) < MaxRooms
          /\ CreateRoom(1, TRUE, FALSE, code)
    \/ \E uid \in Callers, roomId \in RoomIds : JoinRoom(uid, roomId)
    \/ \E uid \in Callers, roomId \in RoomIds :
          /\ Len(messages) < MaxPolled
          /\ SendRoomMessage(uid, roomId, MessageBody("hi", NULL, FALSE))
    \/ \E roomId \in 1..Len(rooms) : SelectRoom(roomId)
    \/ Len(users) >= 1 /\ PollRoomMessages(1)

\* The friendship graph.
NextFriends ==
    \/ \E email \in Emails : Register(email)
    \/ \E uid \in Callers, addresseeId \in UserIds :
          Len(friendships) < MaxFriendships /\ SendFriendRequest(uid, addresseeId)
    \/ \E uid \in Callers, requestId \in FriendshipIds : AcceptFriendRequest(uid, requestId)
    \/ \E uid \in Callers, requestId \in FriendshipIds : RejectFriendRequest(uid, requestId)
    \/ \E uid \in Callers : ListFriends(uid)

Next ==
    NextAuth \/ NextRooms \/ NextJoinRaces \/ NextCreateRoom \/ NextSignup \/ NextInvites \/ NextAccess \/ NextMessages \/ NextListing \/ NextDirect \/ NextRedaction \/ NextLedger \/ NextFriends \/ NextEditRaces \/ NextFrames \/ NextRejections \/ NextSendRaces \/ NextPolling

SpecRooms == Init /\ [][NextRooms]_vars
SpecAuth == Init /\ [][NextAuth]_vars
SpecJoinRaces == Init /\ [][NextJoinRaces]_vars
SpecCreateRoom == Init /\ [][NextCreateRoom]_vars
SpecSignup == Init /\ [][NextSignup]_vars
SpecInvites == Init /\ [][NextInvites]_vars
SpecAccess == Init /\ [][NextAccess]_vars
SpecMessages == Init /\ [][NextMessages]_vars
SpecListing == Init /\ [][NextListing]_vars
SpecDirect == Init /\ [][NextDirect]_vars
SpecRedaction == Init /\ [][NextRedaction]_vars
SpecLedger == Init /\ [][NextLedger]_vars
SpecFriends == Init /\ [][NextFriends]_vars
SpecEditRaces == Init /\ [][NextEditRaces]_vars
SpecFrames == Init /\ [][NextFrames]_vars
SpecRejections == Init /\ [][NextRejections]_vars
SpecSendRaces == Init /\ [][NextSendRaces]_vars
SpecPolling == Init /\ [][NextPolling]_vars
Spec == Init /\ [][Next]_vars

(***************************************************************************)
(* Claims                                                                  *)
(***************************************************************************)
\* A membership row of user u in room r, read off the table.
MemberRow(r, u) == \E m \in DOMAIN roomMembers : m.roomId = r /\ m.userId = u

Succeeded(req) == req.status \in {200, 201}

\* C2: a user who is not a member of a private room becomes one only by
\* presenting the room's current invite code, or by being added by a member.
C2_PrivateRoomNeedsInvite ==
    [][\A r \in 1..Len(rooms), u \in 1..Len(users) :
          (rooms[r].isPrivate /\ ~MemberRow(r, u) /\ MemberRow(r, u)') =>
             \/ /\ last'.op = "joinByInviteCode"
                /\ last'.uid = u
                /\ last'.text = rooms[r].inviteCode
             \/ /\ last'.op = "addMember"
                /\ last'.arg = r
                /\ MemberRow(r, last'.uid)]_vars

C9_CodesUnique ==
    \A r1, r2 \in 1..Len(rooms) :
        rooms[r1].inviteCode = rooms[r2].inviteCode => r1 = r2

C9_RegenerationStep ==
    \A r \in 1..Len(rooms), c1 \in Codes, c2 \in Codes :
        (/\ last'.op = "invite" /\ Succeeded(last')
         /\ last'.arg = r /\ last'.text = c2
         /\ rooms[r].inviteCode = c1 /\ c1 # c2) =>
            /\ getRoomByInviteCode(c1)' = NULL
            /\ getRoomByInviteCode(c2)' = r

C9_JoinStep ==
    \A r \in 1..Len(rooms), u \in 1..Len(users) :
        (/\ last'.op = "joinByInviteCode" /\ last'.uid = u
         /\ ~MemberRow(r, u) /\ MemberRow(r, u)') =>
            rooms[r].inviteCode = last'.text

C9_InviteCodeRegeneration ==
    /\ []C9_CodesUnique
    /\ [][C9_RegenerationStep /\ C9_JoinStep]_vars

C9_Witness ==
    /\ last.op = "invite" /\ Succeeded(last)
    /\ Len(rooms) = 2
    /\ rooms[last.arg].inviteCode = last.text
    /\ \E c \in Codes : getRoomByInviteCode(c) = NULL

\* C1: the room-scoped routes serve only members of the room; a request by a
\* user with no membership row fails and changes no room, membership or
\* message; so every room message was sent by a member of its room.
ScopedOps ==
    {"getRoom", "listMembers", "invite", "addMember", "listRoomMessages",
     "sendRoomMessage"}

NonMemberRequest(r, u) ==
    last'.op \in ScopedOps /\ last'.arg = r /\ last'.uid = u /\ ~MemberRow(r, u)

SentByMember ==
    Len(messages') > Len(messages) =>
        LET m == messages'[Len(messages')]
        IN m.roomId # NULL => MemberRow(m.roomId, m.senderId)

\* C1 as claimed: every request on a room by a user with no membership row in
\* it is answered Forbidden and changes no room, membership or message.
C1_NonMemberForbidden ==
    [][/\ \A r \in 1..Len(rooms), u \in 1..Len(users) :
            NonMemberRequest(r, u) =>
               /\ last'.status = 403
               /\ UNCHANGED <<rooms, roomMembers, messages>>
       /\ SentByMember]_vars

\* C1 as amended: such a request is answered Forbidden, except that add member
\* with no email in the body is answered 400 "Email is required", the check the
\* handler makes first; it changes no room, membership or message.
C1_NonMemberRejected ==
    [][/\ \A r \in 1..Len(rooms), u \in 1..Len(users) :
            NonMemberRequest(r, u) =>
               /\ \/ last'.status = 403
                  \/ /\ last'.op = "addMember" /\ last'.text = NoText
                     /\ last'.status = 400 /\ last'.message = "Email is required"
               /\ UNCHANGED <<rooms, roomMembers, messages>>
       /\ SentByMember]_vars

C1_Witness ==
    /\ last.op = "listRoomMessages" /\ last.status = 403
    /\ roomExists(last.arg) /\ ~MemberRow(last.arg, last.uid)
    /\ Len(messages) = 1 /\ messages[1].roomId = last.arg

\* C4: every stored message has exactly one of roomId and recipientId.
C4_ExactlyOneTarget ==
    \A m \in 1..Len(messages) :
        (messages[m].roomId = NULL) # (messages[m].recipientId = NULL)

\* C10: a listing of room R gives R's messages oldest first, in the order they
\* were sent (ids are handed out in that order).
RoomMessageRows(roomId) == {m \in 1..Len(messages) : messages[m].roomId = roomId}

InSendOrder(listed) == \A i, j \in 1..Len(listed) : i < j => listed[i] < listed[j]

Range(s) == {s[i] : i \in 1..Len(s)}

\* C10 as claimed: the listing gives all of M1..Mn, in send order.
C10_ListingAllInSendOrder ==
    (last.op = "listRoomMessages" /\ Succeeded(last)) =>
        LET listed == getRoomMessages(last.arg, DefaultLimit)
        IN /\ InSendOrder(listed)
           /\ Range(listed) = RoomMessageRows(last.arg)

\* C10 as amended: the listing gives the DefaultLimit messages sent last (all
\* of them when there are no more than that), in send order.
C10_ListingLatestInSendOrder ==
    (last.op = "listRoomMessages" /\ Succeeded(last)) =>
        LET listed == getRoomMessages(last.arg, DefaultLimit)
            sent == RoomMessageRows(last.arg)
        IN /\ InSendOrder(listed)
           /\ Range(listed) =
                 {m \in sent : Cardinality({o \in sent : o > m}) < DefaultLimit}

C10_Witness ==
    /\ last.op = "listRoomMessages" /\ Succeeded(last)
    /\ Cardinality(RoomMessageRows(last.arg)) > DefaultLimit

\* An edit or delete request on message m by user u, who is not its sender.
MutationByOther(m, u) ==
    /\ last'.op \in {"editMessage", "deleteMessage"}
    /\ last'.arg = m /\ last'.uid = u
    /\ messages[m].senderId # u

SameMessage(m) ==
    /\ messages'[m].content = messages[m].content
    /\ messages'[m].isEdited = messages[m].isEdited
    /\ messages'[m].isDeleted = messages[m].isDeleted

\* C5 as claimed: an edit or delete of M by a user other than its sender is
\* answered Forbidden and leaves M's content, isEdited and isDeleted alone,
\* whether or not M is deleted.
C5_OtherUserForbidden ==
    [][\A m \in 1..Len(messages), u \in 1..Len(users) :
          MutationByOther(m, u) => (last'.status = 403 /\ SameMessage(m))]_vars

\* C5 as amended: such a request is answered Forbidden, except that an edit
\* with blank content is answered 400 "Message content is required", the
\* check the handler makes first; M's content, isEdited and isDeleted stay.
C5_OtherUserRejected ==
    [][\A m \in 1..Len(messages), u \in 1..Len(users) :
          MutationByOther(m, u) =>
             /\ \/ last'.status = 403
                \/ /\ last'.op = "editMessage" /\ trim(last'.text) = ""
                   /\ last'.status = 400
                   /\ last'.message = "Message content is required"
             /\ SameMessage(m)]_vars

C5_Witness ==
    /\ last.op = "deleteMessage" /\ last.status = 403
    /\ messageExists(last.arg)
    /\ messages[last.arg].senderId # last.uid
    /\ messages[last.arg].isDeleted

\* C6: an edit of M by its sender with non-blank text is answered 400 "Cannot
\* edit deleted message" and changes no table when M is deleted; otherwise it
\* succeeds and M has the text as content and isEdited true.
C6_EditBySender ==
    [][\A m \in 1..Len(messages), u \in 1..Len(users) :
          (/\ last'.op = "editMessage" /\ last'.arg = m /\ last'.uid = u
           /\ messages[m].senderId = u
           /\ last'.text \in Contents) =>
             IF messages[m].isDeleted
             THEN /\ last'.status = 400
                  /\ last'.message = "Cannot edit deleted message"
                  /\ UNCHANGED <<messages, rooms, roomMembers, friendships>>
             ELSE /\ last'.status = 200
                  /\ messages'[m].content = last'.text
                  /\ messages'[m].isEdited]_vars

C6_Witness ==
    /\ last.op = "editMessage" /\ last.status = 200
    /\ messages[last.arg].senderId = last.uid
    /\ messages[last.arg].content = last.text
    /\ messages[last.arg].isEdited

\* C7: the first delete of M by its sender succeeds and sets isDeleted; every
\* later delete of M by its sender is answered 400 "Message already deleted";
\* so no message has two successful deletes.
C7_FirstDeleteSucceeds ==
    [][\A m \in 1..Len(messages), u \in 1..Len(users) :
          (/\ last'.op = "deleteMessage" /\ last'.arg = m /\ last'.uid = u
           /\ messages[m].senderId = u) =>
             IF m \notin deleteRequested
             THEN last'.status = 200 /\ messages'[m].isDeleted
             ELSE /\ last'.status = 400
                  /\ last'.message = "Message already deleted"
                  /\ SameMessage(m)]_vars

\* C8: when B accepts the request A sent, getFriends(A) has B and
\* getFriends(B) has A; and getFriends(X) never has X.
C8_NoSelfFriend == \A x \in 1..Len(users) : x \notin getFriends(x)

C8_AcceptStep ==
    \A f \in 1..Len(friendships), a \in 1..Len(users), b \in 1..Len(users) :
        (/\ last'.op = "acceptFriendRequest" /\ last'.arg = f /\ last'.uid = b
         /\ friendships[f].requesterId = a
         /\ friendships[f].addresseeId = b) =>
            /\ b \in getFriends(a)'
            /\ a \in getFriends(b)'

C8_FriendSymmetry == []C8_NoSelfFriend /\ [][C8_AcceptStep]_vars

C8_Witness ==
    /\ last.op = "acceptFriendRequest"
    /\ friendshipExists(last.arg)
    /\ friendships[last.arg].addresseeId = last.uid
    /\ friendships[last.arg].requesterId \in getFriends(last.uid)
    /\ last.uid \in getFriends(friendships[last.arg].requesterId)

\* The number of membership rows of user u in room r.
MembershipRows(r, u) ==
    BagCardinality([m \in {x \in DOMAIN roomMembers : x.roomId = r /\ x.userId = u}
                       |-> roomMembers[m]])

JoinOps == {"joinRoom", "joinByInviteCode", "addMember"}

\* C11: there is at most one membership row per (room, user), also when two
\* joins of the same user and room both saw 'not yet a member'; and the join
\* that comes second is answered already-a-member (400) and adds no row.
C11_OneRowPerMember ==
    /\ [](\A r \in 1..Len(rooms), u \in 1..Len(users) : MembershipRows(r, u) <= 1)
    /\ [][\A req \in inflight :
            (/\ req \notin inflight' /\ req.op \in JoinOps
             /\ MemberRow(req.roomId, req.userId)) =>
               /\ last'.status = 400
               /\ roomMembers' = roomMembers]_vars

\* C12: a join through a valid invite code by a user who is no member adds
\* exactly one membership row, with role member; a join (by id or by code) by
\* a member, and an add-member by a member for a user who is a member, are
\* answered 400 already-a-member and leave the membership rows as they are.
C12_JoinAddsOneRow ==
    \A r \in 1..Len(rooms), u \in 1..Len(users) :
        (/\ last'.op = "joinByInviteCode" /\ last'.uid = u
         /\ getRoomByInviteCode(last'.text) = r
         /\ ~MemberRow(r, u)) =>
            /\ Succeeded(last')
            /\ roomMembers' =
                  roomMembers (+) SetToBag({[roomId |-> r, userId |-> u, role |-> "member"]})
            /\ Cardinality(getRoomMembers(r)') = Cardinality(getRoomMembers(r)) + 1

C12_MemberRejected ==
    \A r \in 1..Len(rooms), u \in 1..Len(users) :
        /\ (/\ \/ (last'.op = "joinRoom" /\ last'.arg = r)
                \/ (last'.op = "joinByInviteCode" /\ getRoomByInviteCode(last'.text) = r)
             /\ last'.uid = u
             /\ MemberRow(r, u)) =>
                /\ last'.status = 400 /\ last'.message = "Already a member"
                /\ roomMembers' = roomMembers
        /\ (/\ last'.op = "addMember" /\ last'.arg = r
             /\ MemberRow(r, last'.uid)
             /\ getUserByEmail(last'.text) = u
             /\ MemberRow(r, u)) =>
                /\ last'.status = 400 /\ last'.message = "User is already a member"
                /\ roomMembers' = roomMembers

C12_JoinByCodeAndConflict == [][C12_JoinAddsOneRow /\ C12_MemberRejected]_vars

C12_Witness ==
    /\ last.op = "joinByInviteCode" /\ Succeeded(last)
    /\ getRoomByInviteCode(last.text) # NULL
    /\ Cardinality(getRoomMembers(getRoomByInviteCode(last.text))) = 2
    /\ MembershipRows(getRoomByInviteCode(last.text), last.uid) = 1

\* A room whose creation failed between its two inserts: the row is there,
\* no membership row is, and no creation of it is in flight.
Orphaned(r) ==
    /\ getRoomMembers(r) = {}
    /\ \A req \in inflight : ~(req.op = "createRoom" /\ req.roomId = r)

RequestOnRoom(r) ==
    \/ last'.op \in {"getRoom", "joinRoom", "listRoomMessages"} /\ last'.arg = r
    \/ last'.op = "joinByInviteCode" /\ rooms[r].inviteCode = last'.text

\* C13: a room whose creation failed after the room row was inserted is in no
\* user's room list, and no request to read it, join it or list its messages
\* succeeds or gives it a member.
C13_OrphanRoomInvisible ==
    /\ [](\A r \in 1..Len(rooms), u \in 1..Len(users) :
             Orphaned(r) => r \notin getUserRooms(u))
    /\ [][\A r \in 1..Len(rooms) :
            (Orphaned(r) /\ RequestOnRoom(r)) =>
               (~Succeeded(last') /\ roomMembers' = roomMembers)]_vars

\* C14: a friendship's status changes only from pending, to accepted or to
\* rejected; an accepted or rejected friendship keeps its status.
C14_StatusTerminal ==
    [][\A f \in 1..Len(friendships) :
          friendships'[f].status # friendships[f].status =>
             /\ friendships[f].status = "pending"
             /\ friendships'[f].status \in {"accepted", "rejected"}]_vars

\* C15: an accept or reject request on friendship F by a user who is not F's
\* addressee is answered Forbidden and leaves F as it is.
C15_OnlyAddresseeDecides ==
    [][\A f \in 1..Len(friendships), u \in 1..Len(users) :
          (/\ last'.op \in {"acceptFriendRequest", "rejectFriendRequest"}
           /\ last'.arg = f /\ last'.uid = u
           /\ friendships[f].addresseeId # u) =>
             /\ last'.status = 403
             /\ friendships'[f] = friendships[f]]_vars

\* C16: a request with a missing, malformed, invalid or expired token is
\* answered 401 and changes no stored state, presence included.
C16_BadTokenUnauthenticated ==
    [][(/\ last'.op \in AuthenticatedRoutes
        /\ last'.uid = NULL
        /\ last'.text \in BadTokens) =>
           /\ last'.status = 401
           /\ UNCHANGED <<users, rooms, roomMembers, messages, friendships>>]_vars

\* C17: a request on a room id that resolves to no room, and an edit or a
\* delete of a message id that resolves to no message, are answered 404.
C17_NotFoundFirst ==
    /\ (/\ last.op \in ScopedOps \cup {"joinRoom"}
        /\ last.uid # NULL
        /\ ~roomExists(last.arg)) => last.status = 404
    /\ (/\ last.op \in {"editMessage", "deleteMessage"}
        /\ last.uid # NULL
        /\ last.op = "editMessage" => last.text \in Contents
        /\ ~messageExists(last.arg)) => last.status = 404

\* C18: no two users have the same email; a registration with an email that a
\* user has is answered 400 "User already exists" and creates no user, also
\* when it passed its check before that user was created.
C18_NoSharedEmail ==
    \A i, j \in 1..Len(users) : users[i].email = users[j].email => i = j

C18_DuplicateRejected ==
    (/\ last' # last
     /\ last'.op = "register"
     /\ getUserByEmail(last'.text) # NULL) =>
        /\ last'.status = 400 /\ last'.message = "User already exists"
        /\ users' = users

C18_EmailsUnique == []C18_NoSharedEmail /\ [][C18_DuplicateRejected]_vars

\* The messages a listing request hands to its caller.
Listed(req) ==
    IF ~Succeeded(req) THEN {}
    ELSE IF req.op = "listRoomMessages" THEN Range(getRoomMessages(req.arg, DefaultLimit))
    ELSE IF req.op = "listDirectMessages"
         THEN Range(getDirectMessages(req.uid, req.arg, DefaultLimit))
    ELSE IF req.op = "listRooms"
         THEN UNION {Range(getRoomMessages(r, 1)) : r \in getUserRooms(req.uid)}
    ELSE {}

\* C19: the direct messages listed for (U1, U2) have no room and go from one
\* of the two to the other, oldest first; the listing for (U2, U1) is the
\* same; and no listing hands a message without a room to a user who is
\* neither its sender nor its recipient.
C19_DirectListing ==
    /\ \A u1, u2 \in 1..Len(users) :
          LET listed == getDirectMessages(u1, u2, DefaultLimit) IN
          /\ \A i \in 1..Len(listed) :
                /\ messages[listed[i]].roomId = NULL
                /\ <<messages[listed[i]].senderId, messages[listed[i]].recipientId>>
                      \in {<<u1, u2>>, <<u2, u1>>}
          /\ InSendOrder(listed)
          /\ listed = getDirectMessages(u2, u1, DefaultLimit)
    /\ \A m \in Listed(last) :
          messages[m].roomId = NULL =>
             last.uid \in {messages[m].senderId, messages[m].recipientId}

C19_Witness ==
    /\ last.op = "listDirectMessages" /\ Succeeded(last)
    /\ Len(users) = 3
    /\ last.uid \notin {messages[m].senderId : m \in 1..Len(messages)}
                     \cup {messages[m].recipientId : m \in 1..Len(messages)}
    /\ Len(getDirectMessages(1, 2, DefaultLimit)) = 2
    /\ messages[1].senderId # messages[2].senderId

\* The rows a room or direct listing request answers with.
ListingResponse(req) ==
    IF ~Succeeded(req) THEN <<>>
    ELSE IF req.op = "listRoomMessages"
         THEN MessageRows(getRoomMessages(req.arg, DefaultLimit))
    ELSE IF req.op = "listDirectMessages"
         THEN MessageRows(getDirectMessages(req.uid, req.arg, DefaultLimit))
    ELSE <<>>

\* C20: a listing answered to a user holds the deleted messages at their
\* place, and for a deleted message of another sender it holds the deletion
\* marker but not the content.
C20_DeletedContentHidden ==
    \A i \in 1..Len(ListingResponse(last)) :
        LET row == ListingResponse(last)[i] IN
        (row.isDeleted /\ row.senderId # last.uid) => row.content \notin Contents

(***************************************************************************)
(* C21: a message that is soft-deleted keeps the content it had when it    *)
(* was deleted: no step changes the content of a message whose isDeleted   *)
(* is true, however an edit and a delete of its sender interleave.         *)
(***************************************************************************)
C21_DeletedContentFrozen ==
    [][\A m \in 1..Len(messages) :
          messages[m].isDeleted => messages'[m].content = messages[m].content]_vars

\* C21 as the code has it (last writer wins): an edit that reads the message
\* after it was deleted is refused and never reaches storage.editMessage, and
\* the content of a deleted message changes only by the update of an edit
\* that had passed its checks before the delete.
C21_EditAdmittedBeforeDelete ==
    [][/\ \A req \in inflight' \ inflight :
             req.op = "editMessage" => ~messages[req.arg].isDeleted
       /\ \A m \in 1..Len(messages) :
             (messages[m].isDeleted /\ messages'[m].content # messages[m].content)
             => \E req \in inflight \ inflight' :
                   /\ req.op = "editMessage" /\ req.arg = m
                   /\ messages'[m].content = req.text
       /\ (last'.op = "editMessage" /\ last' # last /\ inflight' = inflight
           /\ messageExists(last'.arg) /\ messages[last'.arg].isDeleted)
          => (last'.status # 200 /\ messages' = messages)]_vars

\* An edit answered 200 on a message that a delete reached in between.
C21_Witness ==
    /\ last.op = "editMessage" /\ last.status = 200
    /\ messageExists(last.arg)
    /\ messages[last.arg].isDeleted
    /\ messages[last.arg].content = last.text
    /\ last.arg \in deleteRequested

(***************************************************************************)
(* C22: no step changes the senderId, roomId or recipientId of a message   *)
(* that exists, and a message that a send creates has the authenticated    *)
(* caller as senderId, whatever senderId the body names.                   *)
(***************************************************************************)
SendOps == {"sendRoomMessage", "sendDirectMessage"}

C22_SenderAndTargetImmutable ==
    [][/\ Len(messages') >= Len(messages)
       /\ \A m \in 1..Len(messages) :
             /\ messages'[m].senderId = messages[m].senderId
             /\ messages'[m].roomId = messages[m].roomId
             /\ messages'[m].recipientId = messages[m].recipientId
       /\ Len(messages') > Len(messages)
          => /\ Len(messages') = Len(messages) + 1
             /\ last'.op \in SendOps /\ last'.status = 201
             /\ messages'[Len(messages')].senderId = last'.uid]_vars

\* Both users have sent a message naming the other as sender, and one of the
\* messages has then been edited and deleted by the user who sent it.
C22_Witness ==
    /\ Len(messages) = 2
    /\ messages[1].senderId # messages[2].senderId
    /\ \E m \in 1..2 : messages[m].isEdited /\ messages[m].isDeleted
    /\ last.op = "deleteMessage" /\ last.status = 200
    /\ messages[last.arg].senderId = last.uid

(***************************************************************************)
(* C23: in every state a login with an email no user has and a login with  *)
(* the email of a user and a wrong password get the same response, 401     *)
(* 'Invalid credentials', and a login answered so changes no table.        *)
(***************************************************************************)
C23_SameResponse ==
    \A known \in Emails, unknown \in Emails, validPassword \in BOOLEAN :
        (getUserByEmail(known) # NULL /\ getUserByEmail(unknown) = NULL)
        => /\ LoginReply(known, FALSE) = Reply(401, "Invalid credentials")
           /\ LoginReply(unknown, validPassword) = LoginReply(known, FALSE)

C23_RejectedLoginStep ==
    [][(last'.op = "login" /\ last' # last
        /\ (getUserByEmail(last'.text) = NULL \/ last'.status = 401))
       => /\ last'.text # NoText
             => (last'.status = 401 /\ last'.message = "Invalid credentials")
          /\ UNCHANGED <<users, rooms, roomMembers, messages, friendships>>]_vars

C23_LoginFailuresAlike == []C23_SameResponse /\ C23_RejectedLoginStep

\* A login with an unknown email has been refused while another email is known.
C23_Witness ==
    /\ last.op = "login" /\ last.status = 401
    /\ last.text \in Emails /\ getUserByEmail(last.text) = NULL
    /\ \E known \in Emails : getUserByEmail(known) # NULL

(***************************************************************************)
(* C24: a request answered 400 or 403 leaves every table as it was: users  *)
(* (presence included), rooms, memberships, messages and friendships.      *)
(***************************************************************************)
Rejected(req) == req.status \in {400, 403}

C24_RejectedChangesNothing ==
    [][(last' # last /\ Rejected(last'))
       => UNCHANGED <<users, rooms, roomMembers, messages, friendships>>]_vars

\* C24 as the code has it: the request changes nothing but the presence of
\* its caller, whom authenticateToken has marked online before the handler
\* refused the request.
C24_RejectedChangesPresenceOnly ==
    [][(last' # last /\ Rejected(last'))
       => /\ UNCHANGED <<rooms, roomMembers, messages, friendships>>
          /\ Len(users') = Len(users)
          /\ \A u \in 1..Len(users) :
                /\ users'[u].email = users[u].email
                /\ u # last'.uid => users'[u] = users[u]
                /\ u = last'.uid => users'[u].status = "online"]_vars

\* A member-only request of a non-member has been refused, its caller is
\* online and the other user is offline.
C24_Witness ==
    /\ last.op = "addMember" /\ last.status = 403
    /\ userExists(last.uid) /\ users[last.uid].status = "online"
    /\ ~isRoomMember(last.arg, last.uid)
    /\ \E u \in 1..Len(users) : users[u].status = "offline"

(***************************************************************************)
(* C25: a friend request of a user to themselves is answered 400 'Cannot   *)
(* add yourself as friend' and adds no row, and no friendship row has the  *)
(* same user as requester and addressee.                                   *)
(***************************************************************************)
C25_NoSelfRow ==
    \A f \in 1..Len(friendships) :
        friendships[f].requesterId # friendships[f].addresseeId

C25_SelfRequestStep ==
    [][(last'.op = "sendFriendRequest" /\ last' # last /\ last'.arg = last'.uid)
       => /\ last'.status = 400
          /\ last'.message = "Cannot add yourself as friend"
          /\ friendships' = friendships]_vars

C25_SelfRequestRejected == []C25_NoSelfRow /\ C25_SelfRequestStep

\* A user who has a friendship already has asked to befriend themselves.
C25_Witness ==
    /\ last.op = "sendFriendRequest" /\ last.arg = last.uid /\ last.status = 400
    /\ \E f \in 1..Len(friendships) : friendships[f].requesterId = last.uid

(***************************************************************************)
(* C26: between any two users there is at most one pending friendship,     *)
(* counting the rows of both directions.                                   *)
(***************************************************************************)
PendingBetween(a, b) ==
    {f \in 1..Len(friendships) :
        /\ friendships[f].status = "pending"
        /\ \/ friendships[f].requesterId = a /\ friendships[f].addresseeId = b
           \/ friendships[f].requesterId = b /\ friendships[f].addresseeId = a}

C26_OnePendingPerPair ==
    \A a \in UserIds, b \in UserIds : Cardinality(PendingBetween(a, b)) <= 1

(***************************************************************************)
(* C27: the message in the 201 response of a send is the message that the  *)
(* request created, also when another send to the conversation is served   *)
(* between the insert and the re-read.                                     *)
(***************************************************************************)
C27_ResponseIsCreatedMessage ==
    (last.op \in SendOps /\ last.status = 201 /\ "returned" \in DOMAIN last)
    => last.returned = last.created

(***************************************************************************)
(* C28: the listing of a room that holds n messages has min(n, 50) rows,   *)
(* all of the room and no row twice; no message left out was created       *)
(* after a listed one; and the rows are in the order of their creation,    *)
(* oldest first.                                                           *)
(***************************************************************************)
C28_ListingWindow ==
    (last.op = "listRoomMessages" /\ Succeeded(last)) =>
        LET listed == getRoomMessages(last.arg, DefaultLimit)
            held == RoomMessageRows(last.arg)
            n == Cardinality(held)
        IN /\ Len(listed) = IF n > DefaultLimit THEN DefaultLimit ELSE n
           /\ Range(listed) \subseteq held
           /\ Cardinality(Range(listed)) = Len(listed)
           /\ \A m \in Range(listed), o \in held \ Range(listed) :
                 messages[o].createdAt <= messages[m].createdAt
           /\ \A i, j \in 1..Len(listed) :
                 i < j => messages[listed[i]].createdAt <= messages[listed[j]].createdAt

\* A room with one message more than the limit has been listed: the listing
\* starts at the second message.
C28_Witness ==
    /\ last.op = "listRoomMessages" /\ Succeeded(last)
    /\ Cardinality(RoomMessageRows(last.arg)) = DefaultLimit + 1
    /\ getRoomMessages(last.arg, DefaultLimit)[1] = 2
    /\ Len(getRoomMessages(last.arg, DefaultLimit)) = DefaultLimit

(***************************************************************************)
(* C29: a request with a valid token leaves its caller online, unless it   *)
(* is a logout, which leaves the caller offline; and a user who is offline *)
(* stays offline in every step that is neither a request with that user's  *)
(* token nor a successful login of that user.                              *)
(***************************************************************************)
C29_PresenceFollowsRequests ==
    [][\A u \in 1..Len(users) :
          /\ (last' # last /\ last'.uid = u /\ last'.op # "logout")
             => users'[u].status = "online"
          /\ (last' # last /\ last'.uid = u /\ last'.op = "logout")
             => users'[u].status = "offline"
          /\ (users[u].status = "offline" /\ users'[u].status # "offline")
             => \/ last'.uid = u
                \/ /\ last'.op = "login" /\ last'.status = 200
                   /\ last'.text = users[u].email]_vars

\* A user has logged out and is still offline after a request of another user.
C29_Witness ==
    /\ last.op = "listFriends" /\ userExists(last.uid)
    /\ users[last.uid].status = "online"
    /\ \E u \in 1..Len(users) : u # last.uid /\ users[u].status = "offline"

(***************************************************************************)
(* C30: the sound is played on a result of the poll exactly when the       *)
(* result holds a message that the result before it, of the same room, did *)
(* not hold; on the first result of a room it is not played.               *)
(***************************************************************************)
C30_SoundOnNewMessagesOnly ==
    hook.loaded =>
        (hook.played <=> (/\ hook.hadPrevious
                          /\ Range(hook.data) \ Range(hook.previousData) # {}))

====
